---- MODULE Spec2Model ----
(***************************************************************************)
(* Error-diffusion dithering (package dithering): findColor, findShift and *)
(* Dither.Draw with its animation channel.                                 *)
(*                                                                         *)
(* Colours are triples of the 16-bit channel values that color.Color.RGBA  *)
(* yields (alpha is opaque throughout).  A PixelError is a triple of       *)
(* signed values counted in sixteenths (float32 holds these exactly for    *)
(* the kernels used here, whose weights are multiples of 1/16).            *)
(***************************************************************************)
EXTENDS Integers, Sequences, FiniteSets, TLC

\* ------------------------------------------------------------- bounds
\* Largest width and height of the small rectangles Draw is run on.
MaxDim == 3
\* Largest frame count handed to NewDitherAnimation.
MaxFrames == 5
\* Number of times the caller runs Draw in a row (output fed back as source).
MaxPass == 2

\* ------------------------------------------------- integer conversions
\* Go's float-to-integer and integer division: truncation toward zero.
TruncDiv(a, b) == IF a >= 0 THEN a \div b ELSE -((-a) \div b)

\* int16(v): the low 16 bits, read as two's complement.
Int16(v) == LET m == v % 65536 IN IF m >= 32768 THEN m - 65536 ELSE m

\* uint16(v): the low 16 bits.
Uint16(v) == v % 65536

\* Faulty variant: the high byte of a 16-bit channel is taken.
Uint8High(v) == (v \div 256) % 256

\* uint8(v): the low 8 bits.
Uint8(v) == v % 256

\* abs(x int16) uint16: uint16(-x) for negative x, the negation taken in int16.
abs(x) == IF x < 0 THEN Uint16(Int16(-x)) ELSE Uint16(x)

\* ------------------------------------------------------------ colours
\* color.RGBA{c[1], c[2], c[3], 255}.RGBA(): each 8-bit channel v becomes v * 0x101.
RGBA8(c) == <<c[1] * 257, c[2] * 257, c[3] * 257>>

\* color.Gray16{v}.RGBA(): the 16-bit value on every channel.
Gray16(v) == <<v, v, v>>

\* ------------------------------------------------------- pixel errors
\* Denominator of the fixed-point unit a PixelError component is counted in.
ErrUnit == 16

\* PixelError{}: the zero error.
ZeroError == <<0, 0, 0>>

\* PixelError{float32(r), float32(g), float32(b), 1<<16 - 1} for integers r, g, b.
ErrorOf(r, g, b) == <<r * ErrUnit, g * ErrUnit, b * ErrUnit>>

\* int16(_errR) where _errR comes from PixelError.RGBA(): the component's
\* integer part (truncated toward zero), carried in a uint32 and cut to 16 bits.
ErrChannel16(e) == Int16(TruncDiv(e, ErrUnit))

\* PixelError.Add: componentwise sum.
Add(a, b) == <<a[1] + b[1], a[2] + b[2], a[3] + b[3]>>

\* PixelError.Mul by the weight n/den.
Mul(a, n, den) == <<(a[1] * n) \div den, (a[2] * n) \div den, (a[3] * n) \div den>>

\* Whether Mul(a, n, den) is exact in sixteenths.
MulExact(a, n, den) == \A k \in 1..3 : (a[k] * n) % den = 0

\* ---------------------------------------------------------- findColor
\* The low-pass filter: int16(float32(int16(_err)) * 0.75).
LowPass(e) == TruncDiv(3 * ErrChannel16(e), 4)

\* pixR = int16(uint8(_pixR)) + errR, in int16.
Working(e, p) == Int16(Uint8(p) + LowPass(e))

\* colR = int16(uint8(_colR)).
Col8(c) == Uint8(c)

\* abs(pixR-colR) + abs(pixG-colG) + abs(pixB-colB), each difference in int16
\* and the sum in uint16.
Distance(w, col) ==
  Uint16(abs(Int16(w[1] - Col8(col[1]))) + abs(Int16(w[2] - Col8(col[2])))
         + abs(Int16(w[3] - Col8(col[3]))))

\* The palette scan: index and minDiff after entries i..Len(pal) (index is
\* 1-based here, Go's is 0-based).  An intermediate value is bound as the one
\* element of a set, so that it is computed once.
RECURSIVE ScanPalette(_, _, _, _, _)
ScanPalette(w, pal, i, index, minDiff) ==
  IF i > Len(pal) THEN [index |-> index, minDiff |-> minDiff]
  ELSE CHOOSE out \in
         {IF distance < minDiff
          THEN ScanPalette(w, pal, i + 1, i, distance)
          ELSE ScanPalette(w, pal, i + 1, index, minDiff) :
            distance \in {Distance(w, pal[i])}} : TRUE

\* pix + err of findColor: the three working channels.
WorkingValue(err, pix) ==
  <<Working(err[1], pix[1]), Working(err[2], pix[2]), Working(err[3], pix[3])>>

\* Faulty variant: an empty palette yields a degenerate result instead of a failure.
ChosenNoPanic(w, s, pal) ==
  LET col == IF Len(pal) = 0 THEN <<0, 0, 0>> ELSE pal[s.index]
      c == <<Col8(col[1]), Col8(col[2]), Col8(col[3])>>
  IN [panic |-> FALSE, index |-> s.index, color |-> c,
      err |-> ErrorOf(Int16(w[1] - c[1]), Int16(w[2] - c[2]), Int16(w[3] - c[3])),
      dist |-> s.minDiff]

\* What findColor returns after the scan: pal[index] panics on an empty palette;
\* otherwise color.RGBA of the entry's low bytes, the residual error, minDiff.
Chosen(w, s, pal) ==
  IF s.index > Len(pal)
  THEN [panic |-> TRUE]
  ELSE LET col == pal[s.index]
           c == <<Col8(col[1]), Col8(col[2]), Col8(col[3])>>
       IN [panic |-> FALSE, index |-> s.index, color |-> c,
           err |-> ErrorOf(Int16(w[1] - c[1]), Int16(w[2] - c[2]), Int16(w[3] - c[3])),
           dist |-> s.minDiff]

\* findColor(err, pix, pal).
findColor(err, pix, pal) ==
  CHOOSE out \in
    UNION {{Chosen(w, s, pal) : s \in {ScanPalette(w, pal, 1, 1, 65535)}} :
             w \in {WorkingValue(err, pix)}} : TRUE

\* ---------------------------------------------------------- findShift
\* A diffusion matrix is [den, w]: the weight of cell (i, j) is w[i][j] / den.
FloydSteinberg == [den |-> 16, w |-> << <<0, 0, 7>>, <<3, 5, 1>> >>]
JarvisJudiceNinke ==
  [den |-> 48, w |-> << <<0, 0, 0, 7, 5>>, <<3, 5, 7, 5, 3>>, <<1, 3, 5, 3, 1>> >>]
Stucki ==
  [den |-> 42, w |-> << <<0, 0, 0, 8, 4>>, <<2, 4, 8, 4, 2>>, <<1, 2, 4, 2, 1>> >>]
Atkinson == [den |-> 8, w |-> << <<0, 0, 1, 1>>, <<1, 1, 1, 0>>, <<0, 1, 0, 0>> >>]
Burkes == [den |-> 32, w |-> << <<0, 0, 0, 8, 4>>, <<2, 4, 8, 4, 2>> >>]
Sierra ==
  [den |-> 32, w |-> << <<0, 0, 0, 5, 3>>, <<2, 4, 5, 4, 2>>, <<0, 2, 3, 2, 0>> >>]
TwoRowSierra == [den |-> 32, w |-> << <<0, 0, 0, 8, 6>>, <<1, 2, 3, 2, 1>> >>]
SierraLite == [den |-> 4, w |-> << <<0, 0, 2>>, <<1, 1, 0>> >>]

BuiltinMatrices ==
  {FloydSteinberg, JarvisJudiceNinke, Stucki, Atkinson, Burkes, Sierra,
   TwoRowSierra, SierraLite}

\* A caller's matrix with no positive weight.
ZeroMatrix == [den |-> 16, w |-> << <<0, 0, 0>>, <<0, 0, 0>> >>]

\* Faulty variant: the first non-negative weight is taken for the first positive one.
RECURSIVE findShiftNonNegFrom(_, _, _)
findShiftNonNegFrom(w, i, j) ==
  IF i > Len(w) THEN 0
  ELSE IF j > Len(w[i]) THEN findShiftNonNegFrom(w, i + 1, 1)
  ELSE IF w[i][j] >= 0 THEN -(j - 1) + 1
  ELSE findShiftNonNegFrom(w, i, j + 1)

findShiftNonNeg(matrix) == findShiftNonNegFrom(matrix.w, 1, 1)

\* The two range loops of findShift from cell (i, j) on (1-based; Go's j is j - 1).
RECURSIVE findShiftFrom(_, _, _)
findShiftFrom(w, i, j) ==
  IF i > Len(w) THEN 0
  ELSE IF j > Len(w[i]) THEN findShiftFrom(w, i + 1, 1)
  ELSE IF w[i][j] > 0 THEN -(j - 1) + 1
  ELSE findShiftFrom(w, i, j + 1)

\* findShift(matrix).
findShift(matrix) == findShiftFrom(matrix.w, 1, 1)

\* --------------------------------------------------------- rectangles
\* image.Rectangle: Min inclusive, Max exclusive.
Rect(x0, y0, w, h) == [Min |-> <<x0, y0>>, Max |-> <<x0 + w, y0 + h>>]
Dx(r) == r.Max[1] - r.Min[1]
Dy(r) == r.Max[2] - r.Min[2]
\* image.Point{x, y}.In(r).
In(x, y, r) == r.Min[1] <= x /\ x < r.Max[1] /\ r.Min[2] <= y /\ y < r.Max[2]
Cells(r) == (r.Min[1] .. (r.Max[1] - 1)) \X (r.Min[2] .. (r.Max[2] - 1))

\* -------------------------------------------------------- error image
\* The value of the error buffer before Draw allocates one.
NoBuffer == << >>

\* NewErrorImage(rect): every cell holds the zero error.
NewErrorImage(r) == [c \in Cells(r) |-> ZeroError]

\* ErrorImage.PixelErrorAt: the zero error outside the rectangle.
PixelErrorAt(buf, r, x, y) == IF In(x, y, r) THEN buf[<<x, y>>] ELSE ZeroError

\* ErrorImage.SetPixelError: a write outside the rectangle is dropped.
SetPixelError(buf, r, x, y, e) ==
  IF In(x, y, r) THEN [buf EXCEPT ![<<x, y>>] = e] ELSE buf

\* ----------------------------------------------------- image.Paletted
\* sqDiff(x, y) of image/color: ((x - y)^2 mod 2^32) >> 2, for 16-bit x and y
\* (the square is below 2^32; it is split so that no intermediate exceeds 2^31).
sqDiff(a, b) ==
  LET d == IF a >= b THEN a - b ELSE b - a
      q == d \div 2
  IN q * q + q * (d % 2)

\* The uint32 sum of the three channels' sqDiff (alpha adds 0), as <<high, low>>
\* 16-bit halves.
SumSq(c, v) ==
  LET s == <<sqDiff(c[1], v[1]), sqDiff(c[2], v[2]), sqDiff(c[3], v[3])>>
      lo == (s[1] % 65536) + (s[2] % 65536) + (s[3] % 65536)
      hi == (s[1] \div 65536) + (s[2] \div 65536) + (s[3] \div 65536)
  IN <<hi + lo \div 65536, lo % 65536>>

Less32(a, b) == a[1] < b[1] \/ (a[1] = b[1] /\ a[2] < b[2])

\* color.Palette.Index(c) from entry i on; ret and the result are 1-based.
RECURSIVE PaletteIndexFrom(_, _, _, _, _)
PaletteIndexFrom(p, c, i, ret, bestSum) ==
  IF i > Len(p) THEN ret
  ELSE LET sum == SumSq(c, p[i])
       IN IF Less32(sum, bestSum)
          THEN IF sum = <<0, 0>> THEN i ELSE PaletteIndexFrom(p, c, i + 1, i, sum)
          ELSE PaletteIndexFrom(p, c, i + 1, ret, bestSum)

\* dst.Set(x, y, r) on an *image.Paletted: the stored pixel is Palette.Index(r).
PalettedSet(img, p, r, x, y, c) ==
  IF In(x, y, r)
  THEN [img EXCEPT ![<<x, y>>] = PaletteIndexFrom(p, RGBA8(c), 1, 1, <<65535, 65535>>)]
  ELSE img

\* image.NewPaletted(r, p): every pixel is palette index 0 (1 here).
NewPaletted(r) == [c \in Cells(r) |-> 1]

\* Paletted.At over the whole image: the palette colour of every pixel.
PalettedColours(img, p) == [c \in DOMAIN img |-> p[img[c]]]

\* ---------------------------------------------------------- the state
VARIABLES
  dstKind,      \* dynamic type of Draw's dst: "Paletted" or another draw.Image
  consumer,     \* whether a goroutine receives from dit.animation
  Matrix,       \* dit.Matrix
  nbFrames,     \* dit.nbFrames
  rect,         \* Draw's rect
  pal,          \* dst's Palette (p)
  src,          \* the source image: cell -> colour
  dst,          \* the destination's pixels: cell -> palette index
  err,          \* the ErrorImage of the running Draw, NoBuffer before it exists
  shift,        \* Draw's local shift
  pixPerFrame,  \* Draw's local pixPerFrame
  x, y,         \* Draw's loop variables
  pc,           \* where Draw stands: start, pixel, send, diffuse, done, panic
  fault,        \* the runtime panic that ended Draw, "none" otherwise
  sent,         \* frames handed over on dit.animation by the running Draw
  pass,         \* how many times Draw has been called
  first,        \* the destination's pixels after the first Draw
  call,         \* a direct call of findColor or findShift
  ret           \* what that call returned

vars ==
  <<dstKind, consumer, Matrix, nbFrames, rect, pal, src, dst, err, shift,
    pixPerFrame, x, y, pc, fault, sent, pass, first, call, ret>>

config == <<dstKind, consumer, Matrix, nbFrames, rect, pal>>
direct == <<call, ret>>
NoCall == [fn |-> "none"]

\* ------------------------------------------------------- Draw's inputs
BlackWhite == <<Gray16(0), Gray16(65535)>>
\* Two color.Gray16 entries whose low bytes order them the other way round.
HighLow == <<Gray16(16384), Gray16(64)>>
Palettes == {<< >>, BlackWhite, HighLow}

DrawMatrices == {FloydSteinberg, Atkinson, ZeroMatrix}

AnimationRect == Rect(0, 0, 8, 8)
Rects ==
  {Rect(m, m, w, h) : m \in {0, 1}, w \in 1..MaxDim, h \in 1..MaxDim}
  \cup {AnimationRect, Rect(1, 1, 8, 8)}

Plain(r) == [c \in Cells(r) |-> RGBA8(<<200, 100, 50>>)]
Checker(r) ==
  [c \in Cells(r) |->
     IF (c[1] + c[2]) % 2 = 0 THEN Gray16(4660) ELSE RGBA8(<<30, 160, 90>>)]
Sources(r) == {Plain(r), Checker(r)}

\* ---------------------------------------------------------------- Draw
\* Faulty variant: the destination's type is not checked.
IsPalettedAny(kind) == TRUE

\* dst.(*image.Paletted) succeeds.
IsPaletted(kind) == kind = "Paletted"

\* Faulty variant: a frame stride of zero is raised to one.
StrideAtLeastOne(r, n) == IF (Dx(r) * Dy(r)) \div n = 0 THEN 1 ELSE (Dx(r) * Dy(r)) \div n

\* pixPerFrame := (rect.Dx() * rect.Dy()) / dit.nbFrames
Stride(r, n) == (Dx(r) * Dy(r)) \div n

\* Faulty variant: the channel takes a frame with no receiver waiting.
SendCompletesBuffered(receiving) == TRUE

\* dit.animation is unbuffered: a send completes only with a receiver.
SendCompletes(receiving) == receiving

\* One kernel cell (i, j) of the diffusion (1-based):
\* err.SetPixelError(x+j+shift, y+i, err.PixelErrorAt(x+j+shift, y+i).Add(
\*     err.PixelErrorAt(x, y).Mul(v2)))
DiffuseCell(buf, r, px, py, M, sh, i, j) ==
  SetPixelError(buf, r, px + (j - 1) + sh, py + (i - 1),
    Add(PixelErrorAt(buf, r, px + (j - 1) + sh, py + (i - 1)),
        Mul(PixelErrorAt(buf, r, px, py), M.w[i][j], M.den)))

\* The diffusion loops of Draw from kernel cell (i, j) on.  The buffer after a
\* cell is bound as the one element of a set, so that it is computed once.
RECURSIVE DiffuseFrom(_, _, _, _, _, _, _, _)
DiffuseFrom(buf, r, px, py, M, sh, i, j) ==
  IF i > Len(M.w) THEN buf
  ELSE IF j > Len(M.w[i]) THEN DiffuseFrom(buf, r, px, py, M, sh, i + 1, 1)
  ELSE CHOOSE out \in {DiffuseFrom(nb, r, px, py, M, sh, i, j + 1) :
                         nb \in {DiffuseCell(buf, r, px, py, M, sh, i, j)}} : TRUE

\* Whether every product of the diffusion is exact in sixteenths.
RECURSIVE DiffuseExactFrom(_, _, _, _, _, _, _, _)
DiffuseExactFrom(buf, r, px, py, M, sh, i, j) ==
  IF i > Len(M.w) THEN TRUE
  ELSE IF j > Len(M.w[i]) THEN DiffuseExactFrom(buf, r, px, py, M, sh, i + 1, 1)
  ELSE /\ MulExact(PixelErrorAt(buf, r, px, py), M.w[i][j], M.den)
       /\ \A nb \in {DiffuseCell(buf, r, px, py, M, sh, i, j)} :
            DiffuseExactFrom(nb, r, px, py, M, sh, i, j + 1)

Init ==
  /\ dstKind \in {"Paletted", "RGBA"}
  /\ consumer \in BOOLEAN
  /\ Matrix \in DrawMatrices
  /\ nbFrames \in 1..MaxFrames
  /\ rect \in Rects
  /\ pal \in Palettes
  /\ src \in Sources(rect)
  /\ dst = NewPaletted(rect)
  /\ err = NoBuffer
  /\ shift = 0 /\ pixPerFrame = 0 /\ x = 0 /\ y = 0
  /\ pc = "start" /\ fault = "none" /\ sent = 0
  /\ pass = 1 /\ first = << >>
  /\ call = NoCall /\ ret = NoCall

\* Draw up to its loops: the type check, the error image, shift, pixPerFrame.
DrawEnter ==
  /\ pc = "start"
  /\ IF ~IsPaletted(dstKind)
     THEN /\ pc' = "done"
          /\ UNCHANGED <<err, shift, pixPerFrame, x, y>>
     ELSE /\ err' = NewErrorImage(rect)
          /\ shift' = findShift(Matrix)
          /\ pixPerFrame' = Stride(rect, nbFrames)
          /\ x' = rect.Min[1] /\ y' = rect.Min[2]
          /\ pc' = IF Dx(rect) > 0 /\ Dy(rect) > 0 THEN "pixel" ELSE "done"
  /\ UNCHANGED <<config, src, dst, fault, sent, pass, first, direct>>

\* One pixel: findColor, dst.Set, SetPixelError and the frame test.
Pixel ==
  /\ pc = "pixel"
  /\ \E e \in {PixelErrorAt(err, rect, x, y)}, c \in {src[<<x, y>>]} :
     \E r \in {findColor(e, c, pal)} :
        IF r.panic
        THEN /\ pc' = "panic" /\ fault' = "index out of range"
             /\ UNCHANGED <<dst, err>>
        ELSE /\ dst' = PalettedSet(dst, pal, rect, x, y, r.color)
             /\ err' = SetPixelError(err, rect, x, y, r.err)
             /\ IF y # 0 /\ x # 0
                THEN IF pixPerFrame = 0
                     THEN pc' = "panic" /\ fault' = "integer divide by zero"
                     ELSE /\ pc' = IF (y * Dy(rect) + x) % pixPerFrame = 0
                                   THEN "send" ELSE "diffuse"
                          /\ fault' = fault
                ELSE pc' = "diffuse" /\ fault' = fault
  /\ UNCHANGED <<config, src, shift, pixPerFrame, x, y, sent, pass, first, direct>>

\* dit.animation <- dst completes: a receiver takes the frame.
Handoff ==
  /\ pc = "send"
  /\ SendCompletes(consumer)
  /\ pc' = "diffuse"
  /\ sent' = sent + 1
  /\ UNCHANGED <<config, src, dst, err, shift, pixPerFrame, x, y, fault, pass,
                 first, direct>>

\* The diffusion of the pixel's error, then the loops' increments.
Diffuse ==
  /\ pc = "diffuse"
  /\ err' = DiffuseFrom(err, rect, x, y, Matrix, shift, 1, 1)
  /\ IF x + 1 < rect.Max[1]
     THEN x' = x + 1 /\ y' = y /\ pc' = "pixel"
     ELSE /\ x' = rect.Min[1] /\ y' = y + 1
          /\ pc' = IF y + 1 < rect.Max[2] THEN "pixel" ELSE "done"
  /\ UNCHANGED <<config, src, dst, shift, pixPerFrame, fault, sent, pass, first,
                 direct>>

\* The caller dithers the dithered output again: same Dither, palette and
\* rectangle, a fresh destination.
Redraw ==
  /\ pc = "done"
  /\ IsPaletted(dstKind)
  /\ pass < MaxPass
  /\ src' = PalettedColours(dst, pal)
  /\ first' = IF pass = 1 THEN dst ELSE first
  /\ dst' = NewPaletted(rect)
  /\ err' = NoBuffer
  /\ shift' = 0 /\ pixPerFrame' = 0 /\ x' = 0 /\ y' = 0
  /\ pc' = "start" /\ sent' = 0
  /\ pass' = pass + 1
  /\ UNCHANGED <<config, fault, direct>>

DrawStep == DrawEnter \/ Pixel \/ Diffuse

Next == DrawEnter \/ Pixel \/ Handoff \/ Diffuse \/ Redraw

Spec == Init /\ [][Next]_vars

\* The goroutine running Draw keeps running while it is not blocked, and a
\* consumer that exists keeps receiving.
InitLive == Init /\ Matrix = FloydSteinberg /\ src = Plain(rect)
LiveSpec == InitLive /\ [][Next]_vars /\ WF_vars(DrawStep) /\ WF_vars(Handoff)

\* Sanity of the fixed-point representation.
TypeOK ==
  /\ pc \in {"start", "pixel", "send", "diffuse", "done", "panic"}
  /\ (pc = "diffuse" => DiffuseExactFrom(err, rect, x, y, Matrix, shift, 1, 1))
  /\ (err # NoBuffer => \A c \in Cells(rect) : \A k \in 1..3 :
                           err[c][k] > -1000000 /\ err[c][k] < 1000000)

\* ------------------------------------------- direct calls of the helpers
\* Error components handed to findColor, in sixteenths: from fractions up to
\* values a few amplifying diffusion steps reach.
DirectComponents ==
  {-29200 * ErrUnit, -400 * ErrUnit, -24, 0, 12, 100 * ErrUnit, 29200 * ErrUnit}
DirectErrors == DirectComponents \X DirectComponents \X DirectComponents
DirectColours ==
  {RGBA8(<<0, 0, 0>>), RGBA8(<<200, 100, 50>>), RGBA8(<<128, 127, 129>>),
   RGBA8(<<255, 255, 255>>)}
DirectPalettes ==
  {BlackWhite,
   <<RGBA8(<<128, 128, 128>>)>>,
   <<RGBA8(<<255, 0, 0>>), RGBA8(<<0, 255, 0>>), RGBA8(<<0, 0, 255>>)>>,
   <<RGBA8(<<127, 128, 128>>), RGBA8(<<128, 127, 128>>), RGBA8(<<129, 126, 129>>)>>}
FindColorCalls ==
  {[fn |-> "findColor", err |-> e, pix |-> c, pal |-> q] :
     e \in DirectErrors, c \in DirectColours, q \in DirectPalettes}

Weights == {-1, 0, 1}
Rows == {<<a, b, c>> : a \in Weights, b \in Weights, c \in Weights}
DirectMatrices ==
  BuiltinMatrices \cup {[den |-> 16, w |-> <<r1, r2>>] : r1 \in Rows, r2 \in Rows}
FindShiftCalls == {[fn |-> "findShift", matrix |-> m] : m \in DirectMatrices}

InitDirect ==
  /\ call \in FindColorCalls \cup FindShiftCalls
  /\ ret = NoCall
  /\ dstKind = "Paletted" /\ consumer = FALSE /\ Matrix = ZeroMatrix
  /\ nbFrames = 1 /\ rect = Rect(0, 0, 1, 1) /\ pal = BlackWhite
  /\ src = Plain(rect) /\ dst = NewPaletted(rect) /\ err = NoBuffer
  /\ shift = 0 /\ pixPerFrame = 0 /\ x = 0 /\ y = 0
  /\ pc = "idle" /\ fault = "none" /\ sent = 0 /\ pass = 0 /\ first = << >>

CallFindColor ==
  /\ call.fn = "findColor" /\ ret = NoCall
  /\ ret' = [fn |-> "findColor", out |-> findColor(call.err, call.pix, call.pal)]
  /\ UNCHANGED <<config, src, dst, err, shift, pixPerFrame, x, y, pc, fault, sent,
                 pass, first, call>>

CallFindShift ==
  /\ call.fn = "findShift" /\ ret = NoCall
  /\ ret' = [fn |-> "findShift", out |-> findShift(call.matrix)]
  /\ UNCHANGED <<config, src, dst, err, shift, pixPerFrame, x, y, pc, fault, sent,
                 pass, first, call>>

NextDirect == CallFindColor \/ CallFindShift

SpecDirect == InitDirect /\ [][NextDirect]_vars

\* ------------------------------------------------------------ properties
Total(r) == Dx(r) * Dy(r)
NoFrame == pc # "send" /\ sent = 0
Absolute(v) == IF v < 0 THEN -v ELSE v

\* C1: with nbFrames = 1 (NewDither) Draw never sends on the animation channel,
\* whatever the rectangle.
C1_NoFrameWhenSingle == nbFrames = 1 => NoFrame

\* C2: with nbFrames = 4 and the 8x8 rectangle, a Draw whose frames are all
\* received has handed over exactly 3 frames when it completes.
C2_ThreeFrames ==
  (pc = "done" /\ pass = 1 /\ dstKind = "Paletted" /\ consumer /\ nbFrames = 4
   /\ rect = AnimationRect)
  => sent = 3

\* C3 as stated: if nbFrames is at least the rectangle's pixel count, Draw never
\* sends a frame.
C3_NoFrameAtOrAboveTotal == nbFrames >= Total(rect) => NoFrame

\* C3 as amended: if nbFrames exceeds the rectangle's pixel count, Draw never
\* sends a frame.
C3_NoFrameAboveTotal == nbFrames > Total(rect) => NoFrame

C3_Witness ==
  /\ nbFrames > Total(rect) /\ dstKind = "Paletted" /\ pal # << >>
  /\ pc = "done" /\ pixPerFrame = 0 /\ Total(rect) > 1

\* C4: the frame handoff is synchronous.  While Draw stands at a send it writes
\* no pixel and no error and leaves the send only by a consumer's receive; with
\* no consumer it stays there for ever; with a consumer it goes on to complete.
C4_BlockingHandoff ==
  /\ [][pc = "send" =>
          /\ dst' = dst /\ err' = err /\ x' = x /\ y' = y
          /\ (pc' = "send" \/ (consumer /\ pc' = "diffuse" /\ sent' = sent + 1))]_vars
  /\ [][(pc = "send" /\ ~consumer) => pc' = "send"]_vars
  /\ ((pc = "send" /\ consumer) ~> (pc = "done"))

C4_Witness == consumer /\ sent >= 2 /\ pc = "done" /\ pass = 1

\* C5: on a destination that is not an *image.Paletted Draw is a no-op: no
\* pixel changes, no error image exists, no frame is sent, and it returns.
C5_NoOpOnOtherDestination ==
  dstKind # "Paletted" =>
    /\ dst = NewPaletted(rect) /\ err = NoBuffer /\ sent = 0
    /\ pc \in {"start", "done"} /\ fault = "none"

C5_Witness == dstKind # "Paletted" /\ pc = "done"

\* C6: findColor returns the palette entry nearest in Manhattan distance to the
\* working value (source channel plus damped error, as integers), the lowest
\* index among equally near entries, and that distance.
C6_NearestColour ==
  (ret.fn = "findColor" /\ ~ret.out.panic) =>
    LET q == call.pal
        w == [k \in 1..3 |->
                Uint8(call.pix[k]) + TruncDiv(3 * TruncDiv(call.err[k], ErrUnit), 4)]
        D(i) == Absolute(w[1] - Uint8(q[i][1])) + Absolute(w[2] - Uint8(q[i][2]))
                + Absolute(w[3] - Uint8(q[i][3]))
        best == CHOOSE i \in 1..Len(q) :
                  \A j \in 1..Len(q) : D(i) <= D(j) /\ (j < i => D(j) > D(i))
    IN /\ ret.out.color = <<Uint8(q[best][1]), Uint8(q[best][2]), Uint8(q[best][3])>>
       /\ ret.out.dist = D(best)

\* C7: with an empty palette Draw ends in a runtime failure at its first pixel:
\* findColor returns nothing, so no pixel and no error is ever written.
C7_EmptyPaletteRejected ==
  (dstKind = "Paletted" /\ pal = << >>) =>
    /\ pc \in {"start", "pixel", "panic"}
    /\ dst = NewPaletted(rect)
    /\ err \in {NoBuffer, NewErrorImage(rect)}
    /\ sent = 0
    /\ (pc = "panic" => fault = "index out of range")

C7_Witness == dstKind = "Paletted" /\ pal = << >> /\ pc = "panic"

\* C8: findShift returns 1 - j for the first strictly positive weight in
\* row-major order (column j counted from 0) and 0 when there is none; so that
\* cell's diffusion target column x + j + shift is x + 1.
PositiveCells(m) ==
  UNION {{<<i, j>> : j \in {k \in 1..Len(m.w[i]) : m.w[i][k] > 0}} : i \in 1..Len(m.w)}
C8_FindShift ==
  ret.fn = "findShift" =>
    IF PositiveCells(call.matrix) = {}
    THEN ret.out = 0
    ELSE LET f == CHOOSE c \in PositiveCells(call.matrix) :
                    \A o \in PositiveCells(call.matrix) :
                      c[1] < o[1] \/ (c[1] = o[1] /\ c[2] <= o[2])
         IN ret.out = 1 - (f[2] - 1) /\ (f[2] - 1) + ret.out = 1

C8_Witness == ret.fn = "findShift" /\ call.matrix = FloydSteinberg /\ ret.out = -1

\* C9: Draw is not idempotent: with the palette HighLow, dithering the dithered
\* output again gives an image different from the first output.
C9_NotIdempotent ==
  (pass = 2 /\ pc = "done" /\ dstKind = "Paletted" /\ pal = HighLow) => dst # first

C9_Witness ==
  /\ pass = 2 /\ pc = "done" /\ dstKind = "Paletted" /\ pal = HighLow
  /\ Matrix = FloydSteinberg /\ \A c \in Cells(rect) : dst[c] # first[c]

\* C10: Draw never divides by zero: pixPerFrame is not zero when the frame test
\* takes a remainder by it.
C10_NoDivisionByZero == fault # "integer divide by zero"

====
